---- MODULE Spec2Model ----
(***************************************************************************)
(* level-jobs: a durable job queue on top of a key-value store.            *)
(* The model follows src/index.js: the Queue object's fields, the two      *)
(* store partitions ('work' and 'pending'), every asynchronous store       *)
(* operation as an operation in flight (issued, taken effect, called       *)
(* back), and one closure record per poke() that found a key.              *)
(***************************************************************************)
EXTENDS Bags, FiniteSets, Integers, Sequences, TLC

(* ---------------------------------------------------------------- bounds *)
MaxPush == 2          \* push() calls over the whole behaviour
MaxConc == 2          \* options.maxConcurrency is drawn from 1..MaxConc
MaxRetr == 1          \* options.maxRetries is drawn from 1..MaxRetr
MaxFaults == 1        \* store operations that fail over the whole behaviour
MaxCrashes == 1       \* process crashes followed by a restart

Payloads == {"a", "b"}

VARIABLES
  work,         \* q._work: key -> stored string
  pending,      \* q._pending: key -> stored string
  options,      \* q._options: [maxConcurrency, maxRetries]
  concurrency,  \* q._concurrency
  starting,     \* q._starting
  flushing,     \* q._flushing
  peeking,      \* q._peeking
  needsFlush,   \* q._needsFlush
  needsDrain,   \* q._needsDrain
  clock,        \* the last key timestamp() has handed out
  recovery,     \* the pending -> work stream of start(): the keys piped so
                \* far, and whether the write stream has closed
  puts,         \* the put operations of push() in flight
  peekOp,       \* the peek operation of flush() in flight
  jobs,         \* bag of the closures of poke(err, key, work) that found a key
  emitted,      \* the notification the last step emitted ("none" if none)
  dispatched,   \* keys in the order transfered() ran the worker, this session
  drains,       \* 'drain' notifications since the first push of this session
  failed,       \* 'max retries reached' notifications of this session
  succeeded,    \* keys whose worker has reported success in this session
  interrupted,  \* keys that were in 'pending' with their worker invoked or
                \* about to be, and no success reported, at the last crash
  period,       \* the busy period: "none" before the session's first push,
                \* "clean" if a push opened it on an idle queue and nothing
                \* has failed in it, else "upset"
  faults,       \* store failures so far
  crashes,      \* crashes so far
  batches,      \* the batch operations of batchPush() issued, in flight or
                \* called back
  called        \* the call of a push or batchPush callback the last step made

vars == <<work, pending, options, concurrency, starting, flushing, peeking,
          needsFlush, needsDrain, clock, recovery, puts, peekOp, jobs,
          emitted, dispatched, drains, failed, succeeded, period,
          interrupted, faults, crashes, batches, called>>

store == <<work, pending>>
flags == <<starting, flushing, peeking, needsFlush, needsDrain>>
history == <<emitted, dispatched, drains, failed, succeeded, period,
             interrupted>>

(* ------------------------------------------------------- pure functions *)

\* json-stringify-safe of a payload, and JSON.parse of the stored string
stringify(p) == <<"json", p>>
JSONparse(s) == s[2]

\* the store without key k
Without(db, k) == [x \in (DOMAIN db) \ {k} |-> db[x]]

\* the store after put(k, v)
With(db, k, v) == (k :> v) @@ db

Empty == [x \in {} |-> ""]

\* timestamp(): a key greater than every key handed out before
timestamp == clock + 1

NoPeek == [st |-> "idle", key |-> 0, work |-> <<>>]

\* no callback was called; cb(err), cb() and cb(null, payloadKeys)
NoCall == [fn |-> "none", err |-> FALSE, keys |-> {}]
Call(err, keys) == [fn |-> "cb", err |-> err, keys |-> keys]

\* peek(db, cb): the first entry of db in key order, or nothing
peek(db) ==
  IF DOMAIN db = {}
  THEN [st |-> "read", key |-> 0, work |-> <<>>]
  ELSE LET k == CHOOSE x \in DOMAIN db : \A y \in DOMAIN db : x <= y
       IN [st |-> "read", key |-> k, work |-> db[k]]

Add(b, c) == b (+) SetToBag({c})
Del(b, c) == b (-) SetToBag({c})

(* ------------------------------------------------ maybeFlush and flush *)

\* flush's test without the capacity check
flushGuardNoCap(conc, pk) == ~pk

\* flush(q), line 127: a peek starts when there is capacity and none is running
flushGuard(conc, pk) == conc < options.maxConcurrency /\ ~pk

\* flush that starts a peek without setting q._flushing
flushPeekOnly(conc, pk, fl, po) ==
  IF flushGuard(conc, pk)
  THEN /\ peeking' = TRUE
       /\ flushing' = fl
       /\ peekOp' = [st |-> "issued", key |-> 0, work |-> <<>>]
  ELSE /\ peeking' = pk
       /\ flushing' = fl
       /\ peekOp' = po

\* flush(q) called with concurrency conc, q._peeking = pk, q._flushing = fl and
\* the peek operation po: the flags and the peek operation it leaves
flush(conc, pk, fl, po) ==
  IF flushGuard(conc, pk)
  THEN /\ peeking' = TRUE
       /\ flushing' = TRUE
       /\ peekOp' = [st |-> "issued", key |-> 0, work |-> <<>>]
  ELSE /\ peeking' = pk
       /\ flushing' = fl
       /\ peekOp' = po

\* maybeFlush that forgets a request it cannot serve at once
maybeFlushLost(conc, st, pk, fl, po, nf) ==
  IF ~st /\ ~fl
  THEN flush(conc, pk, fl, po) /\ needsFlush' = nf
  ELSE /\ needsFlush' = nf
       /\ peeking' = pk
       /\ flushing' = fl
       /\ peekOp' = po

\* maybeFlush that does not wait for the startup to finish
maybeFlushEager(conc, st, pk, fl, po, nf) ==
  IF ~fl
  THEN flush(conc, pk, fl, po) /\ needsFlush' = nf
  ELSE /\ needsFlush' = TRUE
       /\ peeking' = pk
       /\ flushing' = fl
       /\ peekOp' = po

\* maybeFlush(q) called in a state with q._needsFlush = nf
maybeFlush(conc, st, pk, fl, po, nf) ==
  IF ~st /\ ~fl
  THEN flush(conc, pk, fl, po) /\ needsFlush' = nf
  ELSE /\ needsFlush' = TRUE
       /\ peeking' = pk
       /\ flushing' = fl
       /\ peekOp' = po

(* ---------------------------------------------------------------- Init *)

Init ==
  /\ work = Empty
  /\ pending = Empty
  /\ options \in [maxConcurrency : 1..MaxConc, maxRetries : 1..MaxRetr]
  /\ concurrency = 0
  /\ starting = TRUE
  /\ flushing = FALSE
  /\ peeking = FALSE
  /\ needsFlush = FALSE
  /\ needsDrain = TRUE
  /\ clock = 0
  /\ recovery = [piped |-> {}, closed |-> FALSE]
  /\ puts = {}
  /\ peekOp = NoPeek
  /\ jobs = EmptyBag
  /\ emitted = "none"
  /\ dispatched = <<>>
  /\ drains = 0
  /\ failed = 0
  /\ succeeded = {}
  /\ period = "none"
  /\ interrupted = {}
  /\ faults = 0
  /\ crashes = 0
  /\ batches = {}
  /\ called = NoCall

(* ---------------------------------------------------------------- push *)

\* something is queued, being written or in flight
Busy ==
  \/ DOMAIN work # {}
  \/ puts # {}
  \/ jobs # EmptyBag
  \/ \E b \in batches : b.st \in {"issued", "ok", "err"}

\* the queue has started and nothing is queued, being written, being peeked
\* or in flight
Quiescent == ~Busy /\ peekOp.st = "idle" /\ recovery.closed

\* Q.push(payload, cb), lines 61-64: the put is issued
push(p, cb) ==
  /\ clock < MaxPush
  /\ needsDrain' = TRUE
  /\ drains' = IF Busy /\ period # "none" THEN drains ELSE 0
  /\ period' = IF Quiescent THEN "clean"
               ELSE IF Busy /\ period # "none" THEN period ELSE "upset"
  /\ puts' = puts \cup {[key |-> timestamp, value |-> stringify(p),
                         cb |-> cb, st |-> "issued"]}
  /\ clock' = timestamp
  /\ emitted' = "none"
  /\ UNCHANGED <<store, options, concurrency, starting, flushing, peeking,
                 needsFlush, recovery, peekOp, jobs, dispatched, failed,
                 succeeded, interrupted, faults, crashes, batches>>
  /\ called' = NoCall

\* this._work.put(key, value, put) takes effect, or fails
putCommit(op, ok) ==
  /\ op \in puts /\ op.st = "issued"
  /\ IF ok
     THEN /\ work' = With(work, op.key, op.value)
          /\ puts' = (puts \ {op}) \cup {[op EXCEPT !.st = "ok"]}
          /\ UNCHANGED <<faults, period>>
     ELSE /\ faults < MaxFaults
          /\ faults' = faults + 1
          /\ period' = "upset"
          /\ puts' = (puts \ {op}) \cup {[op EXCEPT !.st = "err"]}
          /\ UNCHANGED work
  /\ emitted' = "none"
  /\ UNCHANGED <<pending, options, concurrency, flags, clock, recovery,
                 peekOp, jobs, dispatched, drains, failed, succeeded,
                 interrupted, crashes, batches>>
  /\ called' = NoCall

\* function put(err), lines 66-72
put(op) ==
  /\ op \in puts /\ op.st \in {"ok", "err"}
  /\ puts' = puts \ {op}
  /\ emitted' = IF op.st = "err" /\ ~op.cb THEN "error: put" ELSE "none"
  /\ maybeFlush(concurrency, starting, peeking, flushing, peekOp, needsFlush)
  /\ called' = IF op.cb THEN Call(op.st = "err", {}) ELSE NoCall
  /\ UNCHANGED <<store, options, concurrency, starting, needsDrain, clock,
                 recovery, jobs, dispatched, drains, failed, succeeded,
                 period, interrupted, faults, crashes, batches>>

(* --------------------------------------------------------------- start *)

\* a pipe that writes nothing
startCopyDropped(db, k, v) == db

\* start(q), lines 106-107: one entry of 'pending' is piped into 'work'
startCopy(db, k, v) == With(db, k, v)

startPipe(k) ==
  /\ ~recovery.closed
  /\ k \in DOMAIN pending \ recovery.piped
  /\ work' = startCopy(work, k, pending[k])
  /\ recovery' = [recovery EXCEPT !.piped = @ \cup {k}]
  /\ emitted' = "none"
  /\ UNCHANGED <<pending, options, concurrency, flags, clock, puts, peekOp,
                 jobs, dispatched, drains, failed, succeeded, period,
                 interrupted, faults, crashes, batches>>
  /\ called' = NoCall

\* function done(), lines 110-113, on the write stream's 'close'
done ==
  /\ ~recovery.closed
  /\ recovery.piped = DOMAIN pending
  /\ recovery' = [recovery EXCEPT !.closed = TRUE]
  /\ starting' = FALSE
  /\ maybeFlush(concurrency, FALSE, peeking, flushing, peekOp, needsFlush)
  /\ emitted' = "none"
  /\ UNCHANGED <<store, options, concurrency, needsDrain, clock, puts, jobs,
                 dispatched, drains, failed, succeeded, period, interrupted,
                 faults, crashes, batches>>
  /\ called' = NoCall

(* ---------------------------------------------------------------- peek *)

\* peek(q._work, poke) reads 'work'
peekRead ==
  /\ peekOp.st = "issued"
  /\ peekOp' = peek(work)
  /\ emitted' = "none"
  /\ UNCHANGED <<store, options, concurrency, flags, clock, recovery, puts,
                 jobs, dispatched, drains, failed, succeeded, period,
                 interrupted, faults, crashes, batches>>
  /\ called' = NoCall

\* function poke(err, key, work), lines 133-152
poke ==
  /\ peekOp.st = "read"
  /\ IF peekOp.key # 0
     THEN /\ concurrency' = concurrency + 1
          /\ jobs' = Add(jobs, [key |-> peekOp.key, work |-> peekOp.work,
                                st |-> "transfer", n |-> 0, arg |-> "",
                                first |-> ""])
          /\ peeking' = FALSE
          /\ peekOp' = NoPeek
          /\ emitted' = "none"
          /\ UNCHANGED <<flushing, needsFlush, needsDrain, drains>>
     ELSE /\ UNCHANGED <<concurrency, jobs>>
          /\ IF needsFlush
             THEN /\ maybeFlush(concurrency, starting, FALSE, FALSE, NoPeek,
                             FALSE)
                  /\ emitted' = "none"
                  /\ UNCHANGED <<needsDrain, drains>>
             ELSE /\ peeking' = FALSE
                  /\ flushing' = FALSE
                  /\ peekOp' = NoPeek
                  /\ UNCHANGED needsFlush
                  /\ IF needsDrain
                     THEN /\ needsDrain' = FALSE
                          /\ emitted' = "drain"
                          /\ drains' = drains + 1
                     ELSE /\ emitted' = "none"
                          /\ UNCHANGED <<needsDrain, drains>>
  /\ UNCHANGED <<store, options, starting, clock, recovery, puts, dispatched,
                 failed, succeeded, period, interrupted, faults, crashes,
                 batches>>
  /\ called' = NoCall

(* ------------------------------------------- the work -> pending batch *)

\* a batch without its del
transferWorkKept(db, k) == db

\* the batch of lines 139-142 applied to 'work' and to 'pending'
transferWork(db, k) == Without(db, k)

\* a batch without its put
transferPendingDropped(db, k, v) == db

transferPending(db, k, v) == With(db, k, v)

\* q._db.batch([del work, put pending], transfered) takes effect, or fails
transferCommit(c, ok) ==
  /\ BagIn(c, jobs) /\ c.st = "transfer"
  /\ IF ok
     THEN /\ work' = transferWork(work, c.key)
          /\ pending' = transferPending(pending, c.key, c.work)
          /\ jobs' = Add(Del(jobs, c), [c EXCEPT !.st = "transferOk"])
          /\ UNCHANGED <<faults, period>>
     ELSE /\ faults < MaxFaults
          /\ faults' = faults + 1
          /\ period' = "upset"
          /\ jobs' = Add(Del(jobs, c), [c EXCEPT !.st = "transferErr"])
          /\ UNCHANGED store
  /\ emitted' = "none"
  /\ UNCHANGED <<options, concurrency, flags, clock, recovery, puts, peekOp,
                 dispatched, drains, failed, succeeded, interrupted, crashes,
                 batches>>
  /\ called' = NoCall

\* function transfered(err), lines 154-163
transfered(c) ==
  /\ BagIn(c, jobs) /\ c.st \in {"transferOk", "transferErr"}
  /\ IF c.st = "transferErr"
     THEN /\ needsDrain' = TRUE
          /\ concurrency' = concurrency - 1
          /\ emitted' = "error: transfer"
          /\ jobs' = Del(jobs, c)
          /\ UNCHANGED dispatched
     ELSE /\ jobs' = Add(Del(jobs, c),
                         [c EXCEPT !.st = "running", !.arg = JSONparse(c.work),
                                   !.first = JSONparse(c.work)])
          /\ dispatched' = Append(dispatched, c.key)
          /\ emitted' = "none"
          /\ UNCHANGED <<needsDrain, concurrency>>
  /\ flush(concurrency', peeking, flushing, peekOp)
  /\ UNCHANGED <<store, options, starting, needsFlush, clock, recovery, puts,
                 drains, failed, succeeded, period, interrupted, faults,
                 crashes, batches>>
  /\ called' = NoCall

(* ------------------------------------------------- the worker's result *)

\* Backoff.prototype.backoff with failAfter(q._options.maxRetries), line 183:
\* the sequence fails once it has made maxRetries backoffs
backoffFails(n) == n = options.maxRetries

\* ran() without an error, lines 166-172: the closure after it
ranOk(c) ==
  /\ needsDrain' = TRUE
  /\ concurrency' = concurrency - 1
  /\ jobs' = Add(Del(jobs, c), [c EXCEPT !.st = "deleting"])
  /\ emitted' = "none"
  /\ succeeded' = succeeded \cup {c.key}
  /\ UNCHANGED <<failed, period>>

\* errorBackoff.backoff(), lines 194 and 198: the next timer, or 'fail' and
\* the handler of lines 189-191
backoff(c) ==
  /\ IF backoffFails(c.n)
     THEN /\ jobs' = Add(Del(jobs, c), [c EXCEPT !.st = "exhausted"])
          /\ emitted' = "error: max retries reached"
          /\ failed' = failed + 1
     ELSE /\ jobs' = Add(Del(jobs, c), [c EXCEPT !.st = "backoff"])
          /\ emitted' = "none"
          /\ UNCHANGED failed
  /\ period' = "upset"
  /\ UNCHANGED <<needsDrain, concurrency, succeeded>>

\* function ran(err), lines 165-174, called by the worker's first invocation;
\* an error goes to handleRunError, lines 181-199
ran(c, ok) ==
  /\ BagIn(c, jobs) /\ c.st = "running"
  /\ IF ok THEN ranOk(c) ELSE backoff(c)
  /\ UNCHANGED <<store, options, starting, flushing, peeking, needsFlush,
                 clock, recovery, puts, peekOp, dispatched, drains,
                 interrupted, faults, crashes, batches>>
  /\ called' = NoCall

\* the 'ready' handler, lines 185-187: the worker is run again
ready(c) ==
  /\ BagIn(c, jobs) /\ c.st = "backoff"
  /\ jobs' = Add(Del(jobs, c),
                 [c EXCEPT !.st = "rerunning", !.n = c.n + 1,
                           !.arg = JSONparse(c.work)])
  /\ emitted' = "none"
  /\ UNCHANGED <<store, options, concurrency, flags, clock, recovery, puts,
                 peekOp, dispatched, drains, failed, succeeded, period,
                 interrupted, faults, crashes, batches>>
  /\ called' = NoCall

\* function ranAgain(err), lines 193-196
ranAgain(c, ok) ==
  /\ BagIn(c, jobs) /\ c.st = "rerunning"
  /\ IF ok THEN ranOk(c) ELSE backoff(c)
  /\ UNCHANGED <<store, options, starting, flushing, peeking, needsFlush,
                 clock, recovery, puts, peekOp, dispatched, drains,
                 interrupted, faults, crashes, batches>>
  /\ called' = NoCall

\* the err of poke(err, key, work) that deletedPending tests, line 177: a peek
\* that hands over a key hands over no error
pokeErr == FALSE

\* q._pending.del(key, deletedPending) takes effect or fails, and
\* function deletedPending(_err), lines 176-179
deletedPending(c, ok) ==
  /\ BagIn(c, jobs) /\ c.st = "deleting"
  /\ IF ok
     THEN /\ pending' = Without(pending, c.key)
          /\ UNCHANGED <<faults, period>>
     ELSE /\ faults < MaxFaults
          /\ faults' = faults + 1
          /\ period' = "upset"
          /\ UNCHANGED pending
  /\ jobs' = Del(jobs, c)
  /\ emitted' = IF pokeErr THEN "error: delete" ELSE "none"
  /\ flush(concurrency, peeking, flushing, peekOp)
  /\ UNCHANGED <<work, options, concurrency, starting, needsFlush, needsDrain,
                 clock, recovery, puts, dispatched, drains, failed, succeeded,
                 interrupted, crashes, batches>>
  /\ called' = NoCall

(* --------------------------------------------------------------- crash *)

\* the process dies and Jobs(db, worker, options) is called again on the same
\* store: the Queue constructor, lines 31-52
crash ==
  /\ crashes < MaxCrashes
  /\ crashes' = crashes + 1
  /\ concurrency' = 0
  /\ starting' = TRUE
  /\ flushing' = FALSE
  /\ peeking' = FALSE
  /\ needsFlush' = FALSE
  /\ needsDrain' = TRUE
  /\ recovery' = [piped |-> {}, closed |-> FALSE]
  /\ puts' = {}
  /\ peekOp' = NoPeek
  /\ jobs' = EmptyBag
  /\ emitted' = "none"
  /\ dispatched' = <<>>
  /\ drains' = 0
  /\ failed' = 0
  /\ period' = "none"
  /\ succeeded' = {}
  /\ interrupted' =
       {k \in DOMAIN pending \ succeeded :
          \E c \in BagToSet(jobs) :
            c.key = k /\ c.st \in {"transferOk", "running", "backoff",
                                    "rerunning"}}
  /\ batches' = {[b EXCEPT !.st = "lost"] : b \in batches}
  /\ called' = NoCall
  /\ UNCHANGED <<store, options, clock, faults>>

(* ---------------------------------------------------------------- Next *)

Closures == BagToSet(jobs)

Next ==
  \/ \E p \in Payloads, cb \in BOOLEAN : push(p, cb)
  \/ \E op \in puts, ok \in BOOLEAN : putCommit(op, ok)
  \/ \E op \in puts : put(op)
  \/ \E k \in DOMAIN pending : startPipe(k)
  \/ done
  \/ peekRead
  \/ poke
  \/ \E c \in Closures, ok \in BOOLEAN : transferCommit(c, ok)
  \/ \E c \in Closures : transfered(c)
  \/ \E c \in Closures, ok \in BOOLEAN : ran(c, ok)
  \/ \E c \in Closures : ready(c)
  \/ \E c \in Closures, ok \in BOOLEAN : ranAgain(c, ok)
  \/ \E c \in Closures, ok \in BOOLEAN : deletedPending(c, ok)
  \/ crash

Spec == Init /\ [][Next]_vars

(* ------------------------------------------------------------ helpers *)

\* the closures in one of the states sts, counted with multiplicity
Count(sts) ==
  BagCardinality([c \in {d \in Closures : d.st \in sts} |-> CopiesIn(c, jobs)])

\* closures whose worker has been invoked and has neither succeeded nor
\* exhausted its retries
Outstanding == Count({"running", "backoff", "rerunning"})

(* ------------------------------------------------------------- claims *)

\* C1: no key is in 'work' and in 'pending' at the same time, in every
\* reachable state, the states of the startup recovery included.
PartitionExclusive == DOMAIN work \cap DOMAIN pending = {}

\* C2: 0 <= concurrency <= maxConcurrency in every reachable state, and the
\* jobs handed to the worker and not yet resolved never number more than
\* maxConcurrency.
ConcurrencyBound ==
  /\ concurrency \in 0..options.maxConcurrency
  /\ Outstanding <= options.maxConcurrency

\* C2 witness: two workers are outstanding and the counter is at its bound of 2
ConcurrencyAtBound ==
  /\ options.maxConcurrency = 2
  /\ concurrency = 2
  /\ Count({"running"}) = 2

\* C3: within one session no key is dispatched (its worker first invoked)
\* twice; stated for the sessions in which no store operation has failed.
NoDuplicateDispatch ==
  faults = 0 =>
    \A i, j \in 1..Len(dispatched) : i # j => dispatched[i] # dispatched[j]

\* C4: whenever 'drain' is emitted nothing is in flight: concurrency is 0 and
\* no closure is transferring, running or awaiting a retry.
DrainMeansIdle ==
  emitted = "drain" =>
    /\ concurrency = 0
    /\ Count({"transfer", "transferOk", "transferErr", "running", "backoff",
              "rerunning"}) = 0

\* C5: after a busy period that a push opened on a started, idle queue, with no
\* more jobs than maxConcurrency and with no worker or store failure, exactly
\* one 'drain' has been emitted by the time the queue is empty and idle again.
DrainOncePerBusyPeriod ==
  (period = "clean" /\ clock <= options.maxConcurrency /\ Quiescent) =>
    drains = 1

\* the store and timer completions and the worker's callbacks: every step but
\* a new push and a crash
Callbacks ==
  \/ \E op \in puts, ok \in BOOLEAN : putCommit(op, ok)
  \/ \E op \in puts : put(op)
  \/ \E k \in DOMAIN pending : startPipe(k)
  \/ done
  \/ peekRead
  \/ poke
  \/ \E c \in Closures, ok \in BOOLEAN : transferCommit(c, ok)
  \/ \E c \in Closures : transfered(c)
  \/ \E c \in Closures, ok \in BOOLEAN : ran(c, ok)
  \/ \E c \in Closures : ready(c)
  \/ \E c \in Closures, ok \in BOOLEAN : ranAgain(c, ok)
  \/ \E c \in Closures, ok \in BOOLEAN : deletedPending(c, ok)

\* C6: after a job has exhausted its retries and 'max retries reached' has been
\* emitted, the dispatch loop keeps running: while a job is in 'work', a store
\* completion, timer or worker callback is still to come.
LoopRunsAfterError ==
  (crashes = 0 /\ faults = 0 /\ failed > 0 /\ DOMAIN work # {}) =>
    ENABLED Callbacks

\* Every store operation completes, every timer fires and every worker
\* invocation calls back: node's event loop runs each pending callback.
FairSpec == Spec /\ WF_vars(Callbacks)

Keys == 1..MaxPush

Range(seq) == {seq[i] : i \in 1..Len(seq)}

\* C7: a job that is in 'work' is eventually dispatched to the worker, unless
\* some worker fails until its retries are exhausted.
PushedNeverStuck ==
  \A k \in Keys :
    (k \in DOMAIN work) ~> (k \in Range(dispatched) \/ failed > 0)

\* C7 witness: with maxConcurrency = 1 a dispatch request has been deferred
\* through needsFlush, and both jobs have been dispatched
DeferredAndDispatched ==
  /\ crashes = 0
  /\ options.maxConcurrency = 1
  /\ needsFlush
  /\ dispatched = <<1, 2>>

Stored == DOMAIN work \cup DOMAIN pending

\* the strings the store holds under key k
Values(k) ==
  {work[x] : x \in DOMAIN work \cap {k}} \cup
  {pending[x] : x \in DOMAIN pending \cap {k}}

\* no step, a crash included, takes a key out of the store or changes its
\* payload, but the step that follows its worker's success
NoLoss ==
  \A k \in Stored :
    \/ k \in Stored' /\ Values(k)' = Values(k)
    \/ k \in succeeded'

\* C8: no step loses a stored job, and a job whose work -> pending transition
\* had committed and whose worker had not resolved when the process crashed is,
\* after the restart, dispatched again and, its worker succeeding and no store
\* operation failing, gone from both partitions.
CrashRecovery ==
  /\ [][NoLoss]_vars
  /\ \A k \in Keys :
       (starting /\ k \in interrupted) ~>
         \/ /\ k \in Range(dispatched)
            /\ k \in succeeded
            /\ k \notin Stored
         \/ failed > 0
         \/ faults > 0

\* C8 witness: job 1 was interrupted by the crash, has been run to success in
\* the new session and is gone from the store, with no store failure
Recovered ==
  /\ crashes = 1
  /\ faults = 0
  /\ 1 \in interrupted
  /\ 1 \in Range(dispatched)
  /\ 1 \in succeeded
  /\ 1 \notin Stored

(* ------------------------------------ FIFO: a queue found full at startup *)

FifoJobs == 3         \* jobs in 'work' when the queue is constructed

\* Jobs(db, worker, 1) on a store whose 'work' holds keys 1..FifoJobs, left
\* there by an earlier session, and whose 'pending' is empty
FifoInit ==
  /\ work \in [1..FifoJobs -> {stringify(p) : p \in Payloads}]
  /\ pending = Empty
  /\ options \in [maxConcurrency : {1}, maxRetries : 1..MaxRetr]
  /\ concurrency = 0
  /\ starting = TRUE
  /\ flushing = FALSE
  /\ peeking = FALSE
  /\ needsFlush = FALSE
  /\ needsDrain = TRUE
  /\ clock = FifoJobs
  /\ recovery = [piped |-> {}, closed |-> FALSE]
  /\ puts = {}
  /\ peekOp = NoPeek
  /\ jobs = EmptyBag
  /\ emitted = "none"
  /\ dispatched = <<>>
  /\ drains = 0
  /\ failed = 0
  /\ succeeded = {}
  /\ period = "none"
  /\ interrupted = {}
  /\ faults = 0
  /\ crashes = 0
  /\ batches = {}
  /\ called = NoCall

\* the steps of a queue onto which nothing is pushed
FifoNext ==
  \/ \E k \in DOMAIN pending : startPipe(k)
  \/ done
  \/ peekRead
  \/ poke
  \/ \E c \in Closures, ok \in BOOLEAN : transferCommit(c, ok)
  \/ \E c \in Closures : transfered(c)
  \/ \E c \in Closures, ok \in BOOLEAN : ran(c, ok)
  \/ \E c \in Closures : ready(c)
  \/ \E c \in Closures, ok \in BOOLEAN : ranAgain(c, ok)
  \/ \E c \in Closures, ok \in BOOLEAN : deletedPending(c, ok)
  \/ crash

SpecFifo == FifoInit /\ [][FifoNext]_vars

\* C9: with maxConcurrency = 1 and the jobs all in 'work' before the first
\* dispatch, the worker is invoked for the keys in increasing order, skipping
\* none that is still in 'work', and for each only after the worker of the one
\* dispatched before it has succeeded.
FifoDispatch ==
  /\ \A i, j \in 1..Len(dispatched) : i < j => dispatched[i] < dispatched[j]
  /\ \A i \in 1..Len(dispatched) : \A k \in DOMAIN work : dispatched[i] < k
  /\ \A i \in 1..Len(dispatched) :
       i < Len(dispatched) => dispatched[i] \in succeeded

\* C9 witness: the three jobs have been dispatched, in one session
FifoAllDispatched == crashes = 0 /\ dispatched = <<1, 2, 3>>

\* C10: once a job's worker has failed on every invocation, it has been retried
\* exactly maxRetries times with the payload of its first invocation, one
\* 'max retries reached' has been emitted for it, no worker runs for the job
\* again, and its entry is still in 'pending'; stated for the sessions in which
\* no store operation has failed.
RetryExhaustion ==
  faults = 0 =>
    /\ failed = Count({"exhausted"})
    /\ \A c \in Closures :
         c.st = "exhausted" =>
           /\ c.n = options.maxRetries
           /\ c.arg = c.first
           /\ c.key \in DOMAIN pending
           /\ \A d \in Closures :
                d.key = c.key =>
                  d.st \notin {"running", "rerunning", "backoff"}

(* ------------------------- retries: a queue whose workers may fail twice *)

RetryJobs == 2        \* jobs in 'work' when the queue is constructed
RetryMax == 2         \* options.maxRetries is drawn from 1..RetryMax

\* Jobs(db, worker, options) on a store whose 'work' holds keys 1..RetryJobs
\* and whose 'pending' is empty, with maxRetries up to RetryMax
RetryInit ==
  /\ work \in [1..RetryJobs -> {stringify(p) : p \in Payloads}]
  /\ pending = Empty
  /\ options \in [maxConcurrency : 1..MaxConc, maxRetries : 1..RetryMax]
  /\ concurrency = 0
  /\ starting = TRUE
  /\ flushing = FALSE
  /\ peeking = FALSE
  /\ needsFlush = FALSE
  /\ needsDrain = TRUE
  /\ clock = RetryJobs
  /\ recovery = [piped |-> {}, closed |-> FALSE]
  /\ puts = {}
  /\ peekOp = NoPeek
  /\ jobs = EmptyBag
  /\ emitted = "none"
  /\ dispatched = <<>>
  /\ drains = 0
  /\ failed = 0
  /\ succeeded = {}
  /\ period = "none"
  /\ interrupted = {}
  /\ faults = 0
  /\ crashes = 0
  /\ batches = {}
  /\ called = NoCall

SpecRetry == RetryInit /\ [][FifoNext]_vars

\* the closures of key k, counted with multiplicity, in one of the states sts
CountOf(k, sts) ==
  BagCardinality([c \in {d \in Closures : d.key = k /\ d.st \in sts} |->
                    CopiesIn(c, jobs)])

\* C11: when a job's worker has failed maxRetries-1 times and then succeeded,
\* the job is resolved as by an ordinary success: its entry is in 'pending' to
\* be deleted, this is the job's only deletion, and no 'max retries reached'
\* is emitted for the job; stated for the sessions in which no store operation
\* has failed.
SuccessAfterRetries ==
  faults = 0 =>
    \A c \in Closures :
      (c.st = "deleting" /\ c.n > 0 /\ c.n = options.maxRetries - 1) =>
        /\ c.key \in DOMAIN pending
        /\ CountOf(c.key, {"deleting"}) = 1
        /\ CountOf(c.key, {"exhausted"}) = 0

\* C12: every step in which the delete of a succeeded job from 'pending'
\* fails emits an 'error' notification for that failure, and leaves a dispatch
\* attempt made: a peek is running unless the queue is at its capacity.
DeleteFailureReported ==
  [][\A c \in Closures :
       deletedPending(c, FALSE) =>
         /\ emitted' = "error: delete"
         /\ peeking' \/ concurrency' >= options.maxConcurrency]_vars

(* ----------------------------------------------------------- batchPush *)

MaxBatch == 1         \* batchPush() calls over the whole behaviour
BatchSize == 2        \* keys a caller may give to batchPush

\* the keys of the callers of batchPush, none of them a key of timestamp()
BatchKeys == (MaxPush + 1)..(MaxPush + BatchSize)

\* Q.batchPush(payloads, cb), lines 75-82: the batch is issued; the caller
\* gives every job a key of its own
batchPush(payloads, cb) ==
  /\ Cardinality(batches) < MaxBatch
  /\ \A b \in batches : DOMAIN b.batch \cap DOMAIN payloads = {}
  /\ needsDrain' = TRUE
  /\ drains' = IF Busy /\ period # "none" THEN drains ELSE 0
  /\ period' = IF Quiescent THEN "clean"
               ELSE IF Busy /\ period # "none" THEN period ELSE "upset"
  /\ batches' = batches \cup
                  {[batch |-> [k \in DOMAIN payloads |->
                                 stringify(payloads[k])],
                    cb |-> cb, st |-> "issued"]}
  /\ emitted' = "none"
  /\ called' = NoCall
  /\ UNCHANGED <<store, options, concurrency, starting, flushing, peeking,
                 needsFlush, clock, recovery, puts, peekOp, jobs, dispatched,
                 failed, succeeded, interrupted, faults, crashes>>

\* a batch that writes its first key only
batchWriteFirst(db, batch) ==
  [k \in {x \in DOMAIN batch : \A y \in DOMAIN batch : x <= y} |-> batch[k]]
    @@ db

\* the puts of a batch applied to 'work'
batchWrite(db, batch) == batch @@ db

\* q._db.batch(batch, put), line 82, takes effect as a whole, or fails
batchCommit(b, ok) ==
  /\ b \in batches /\ b.st = "issued"
  /\ IF ok
     THEN /\ work' = batchWrite(work, b.batch)
          /\ batches' = (batches \ {b}) \cup {[b EXCEPT !.st = "ok"]}
          /\ UNCHANGED <<faults, period>>
     ELSE /\ faults < MaxFaults
          /\ faults' = faults + 1
          /\ period' = "upset"
          /\ batches' = (batches \ {b}) \cup {[b EXCEPT !.st = "err"]}
          /\ UNCHANGED work
  /\ emitted' = "none"
  /\ called' = NoCall
  /\ UNCHANGED <<pending, options, concurrency, flags, clock, recovery, puts,
                 peekOp, jobs, dispatched, drains, failed, succeeded,
                 interrupted, crashes>>

\* a put(err) that emits every error
emitsAlways(st, cb) == st = "err"

\* function put(err), lines 85-87: the error is emitted when there is no cb
emits(st, cb) == st = "err" /\ ~cb

\* function put(err) of batchPush, lines 84-90
batchPut(b) ==
  /\ b \in batches /\ b.st \in {"ok", "err"}
  /\ batches' = (batches \ {b}) \cup
                  {[b EXCEPT !.st = IF b.st = "err" THEN "failed" ELSE "done"]}
  /\ emitted' = IF emits(b.st, b.cb) THEN "error: batch" ELSE "none"
  /\ called' = IF ~b.cb THEN NoCall
               ELSE IF b.st = "err" THEN Call(TRUE, {})
               ELSE Call(FALSE, DOMAIN b.batch)
  /\ maybeFlush(concurrency, starting, peeking, flushing, peekOp, needsFlush)
  /\ UNCHANGED <<store, options, concurrency, starting, needsDrain, clock,
                 recovery, puts, jobs, dispatched, drains, failed, succeeded,
                 period, interrupted, faults, crashes>>

\* the payloads objects a caller may pass
Batches == UNION {[K -> Payloads] : K \in SUBSET BatchKeys \ {{}}}

\* Jobs(db, worker, 1) after the last of MaxCrashes crashes, on a store that
\* earlier sessions have left empty, all but one timestamp() key used
BatchInit ==
  /\ work = Empty
  /\ pending = Empty
  /\ options \in [maxConcurrency : {1}, maxRetries : 1..MaxRetr]
  /\ concurrency = 0
  /\ starting = TRUE
  /\ flushing = FALSE
  /\ peeking = FALSE
  /\ needsFlush = FALSE
  /\ needsDrain = TRUE
  /\ clock = MaxPush - 1
  /\ recovery = [piped |-> {}, closed |-> FALSE]
  /\ puts = {}
  /\ peekOp = NoPeek
  /\ jobs = EmptyBag
  /\ emitted = "none"
  /\ dispatched = <<>>
  /\ drains = 0
  /\ failed = 0
  /\ succeeded = {}
  /\ period = "none"
  /\ interrupted = {}
  /\ faults = 0
  /\ crashes = MaxCrashes
  /\ batches = {}
  /\ called = NoCall

\* the steps of a queue that finds 'pending' empty and does not crash again
BatchNext ==
  \/ \E p \in Payloads, cb \in BOOLEAN : push(p, cb)
  \/ \E op \in puts, ok \in BOOLEAN : putCommit(op, ok)
  \/ \E op \in puts : put(op)
  \/ \E pl \in Batches, cb \in BOOLEAN : batchPush(pl, cb)
  \/ \E b \in batches, ok \in BOOLEAN : batchCommit(b, ok)
  \/ \E b \in batches : batchPut(b)
  \/ done
  \/ peekRead
  \/ poke
  \/ \E c \in Closures, ok \in BOOLEAN : transferCommit(c, ok)
  \/ \E c \in Closures : transfered(c)
  \/ \E c \in Closures, ok \in BOOLEAN : ran(c, ok)
  \/ \E c \in Closures : ready(c)
  \/ \E c \in Closures, ok \in BOOLEAN : ranAgain(c, ok)
  \/ \E c \in Closures, ok \in BOOLEAN : deletedPending(c, ok)

SpecBatch == BatchInit /\ [][BatchNext]_vars

\* the step is the callback of the write op (of a push in puts, or of a
\* batchPush in batches), which had failed iff err and had a callback iff cb
Routed(err, cb) ==
  /\ called' = (IF cb THEN Call(err, called'.keys) ELSE NoCall)
  /\ err => called'.keys = {}
  /\ (emitted' # "none") = (err /\ ~cb)
  /\ needsFlush' \/ peeking'

\* C13: in the step that calls back a write of push or batchPush, a failure
\* goes to the caller's callback and not to 'error' if there is a callback,
\* and to 'error' if there is none; a success calls the callback without an
\* error and emits nothing; and after the step a dispatch request is
\* recorded in needsFlush or a peek is running.
EnqueueErrorRouting ==
  [][/\ \A op \in puts :
          (op.st \in {"ok", "err"} /\ op \notin puts' /\ crashes' = crashes)
            => Routed(op.st = "err", op.cb)
     /\ \A b \in batches :
          (b.st \in {"ok", "err"} /\ b \notin batches' /\ crashes' = crashes)
            => Routed(b.st = "err", b.cb)]_vars

\* C13 witness: the write of a batchPush with a callback has failed, and the
\* callback has just been called with the error and nothing emitted
BatchErrorToCallback ==
  /\ faults = 1
  /\ clock = MaxPush - 1
  /\ \E b \in batches : b.st = "failed" /\ b.cb
  /\ called = Call(TRUE, {})
  /\ emitted = "none"

\* C14: the keys of a batchPush that is not yet written, or whose write has
\* failed, are in neither partition and are never dispatched; the step in
\* which the write fails leaves 'work' unchanged; the step in which it
\* succeeds puts all its keyed payloads, and nothing else, into 'work'; and a
\* success calls the callback with exactly the keys written.
BatchAtomic ==
  /\ [](\A b \in batches :
          b.st \in {"issued", "err", "failed"} =>
            DOMAIN b.batch \cap (Stored \cup Range(dispatched)) = {})
  /\ [][\A b \in batches :
          /\ [b EXCEPT !.st = "err"] \in batches' \ batches => work' = work
          /\ [b EXCEPT !.st = "ok"] \in batches' \ batches =>
               /\ DOMAIN work' = DOMAIN work \cup DOMAIN b.batch
               /\ \A k \in DOMAIN b.batch : work'[k] = b.batch[k]
               /\ \A k \in DOMAIN work : work'[k] = work[k]
          /\ (b.cb /\ [b EXCEPT !.st = "done"] \in batches' \ batches) =>
               called' = Call(FALSE, DOMAIN b.batch)]_vars

\* C14 witness: a batchPush of BatchSize keys has been written, both keys are
\* in 'work', and its callback has just been called with the two keys
BatchWritten ==
  /\ \E b \in batches : b.st = "done" /\ DOMAIN b.batch = BatchKeys
  /\ BatchKeys \subseteq DOMAIN work
  /\ called = Call(FALSE, BatchKeys)

\* C15: while starting is true no peek is running, no work -> pending
\* transition is in flight and no worker has been invoked; a put callback in
\* that window leaves needsFlush set; and the step that ends the startup
\* starts a peek, with every entry of 'pending' requeued in 'work' next to the
\* entries pushed meanwhile.
StartupGating ==
  /\ [](starting =>
          /\ ~peeking /\ ~flushing /\ peekOp = NoPeek
          /\ jobs = EmptyBag
          /\ dispatched = <<>>)
  /\ [][/\ (/\ starting /\ starting'
            /\ \E op \in puts : op.st \in {"ok", "err"} /\ op \notin puts'
            /\ crashes' = crashes)
           => needsFlush'
        /\ (starting /\ ~starting') =>
             /\ peeking' /\ flushing' /\ peekOp'.st = "issued"
             /\ DOMAIN pending \subseteq DOMAIN work'
             /\ work' = work]_vars

\* C15 witness: after a crash, job 1 was requeued from 'pending', job 2 was
\* pushed during the startup and its put callback set needsFlush, and the
\* peek started at the end of the startup has read 'work' with both in it
StartupPeekSeesBoth ==
  /\ crashes = 1
  /\ ~starting
  /\ needsFlush
  /\ dispatched = <<>>
  /\ 1 \in interrupted
  /\ DOMAIN work = {1, 2}
  /\ peekOp.st = "read" /\ peekOp.key = 1

\* C16: the step in which transfered(err) handles a failed work -> pending
\* batch does not invoke the worker, takes concurrency down by the one that
\* poke added, sets needsDrain, emits 'error', leaves the job in 'work' and
\* not in 'pending', and leaves a peek running for the next dispatch cycle.
TransitionRollback ==
  [][\A c \in Closures :
       (c.st = "transferErr" /\ CopiesIn(c, jobs') < CopiesIn(c, jobs)
          /\ crashes' = crashes) =>
         /\ dispatched' = dispatched
         /\ concurrency' = concurrency - 1
         /\ needsDrain'
         /\ emitted' = "error: transfer"
         /\ c.key \in DOMAIN work'
         /\ c.key \notin DOMAIN pending'
         /\ peeking']_vars

\* the dispatch attempts that are active: the peek that is running, and the
\* work -> pending transitions whose transfered() has not run yet
Attempts ==
  (IF peekOp.st = "idle" THEN 0 ELSE 1) +
    Count({"transfer", "transferOk", "transferErr"})

\* C17: at most one dispatch attempt, a peek with the transition it triggers,
\* is active at any time; stated for the sessions in which no store operation
\* has failed.
DispatchExclusive == faults = 0 => Attempts <= 1

\* the jobs selected for dispatch and not resolved: the transition is in
\* flight or its callback still to run, the worker is invoked, or a retry is
\* awaited
Unresolved ==
  Count({"transfer", "transferOk", "transferErr", "running", "backoff",
         "rerunning"})

\* C18: in every reachable state concurrency is the number of jobs selected
\* for dispatch and not yet resolved; a job that succeeded, whose transition
\* failed or whose retries are exhausted is not counted.
ConcurrencyMeaning == concurrency = Unresolved

\* C19: a queue constructed on an empty store and onto which no job is ever
\* pushed never emits 'drain'.
NoDrainWithoutWork ==
  (clock = 0 /\ batches = {} /\ Stored = {}) => emitted # "drain"

\* C20: in every reachable state peeking implies flushing; flushing = false
\* implies concurrency < maxConcurrency; flushing = true implies that a peek,
\* a work -> pending transition or a post-success pending delete is
\* outstanding, or that concurrency = maxConcurrency; and a put callback that
\* runs when neither starting nor flushing is set leaves a peek running.
FlagConsistency ==
  /\ [](/\ peeking => flushing
        /\ ~flushing => concurrency < options.maxConcurrency
        /\ flushing =>
             \/ peekOp.st # "idle"
             \/ Count({"transfer", "transferOk", "transferErr",
                       "deleting"}) > 0
             \/ concurrency = options.maxConcurrency)
  /\ [][(/\ ~starting /\ ~flushing
         /\ \E op \in puts : op.st \in {"ok", "err"} /\ op \notin puts'
         /\ crashes' = crashes)
          => peeking']_vars

\* C20 witness: flushing is set while no peek, transition or delete is
\* outstanding, the two slots of the queue being taken by running workers,
\* and a put callback has asked for a dispatch meanwhile
FlushingAtCapacity ==
  /\ flushing /\ ~peeking /\ peekOp = NoPeek
  /\ needsFlush
  /\ options.maxConcurrency = 2
  /\ concurrency = 2
  /\ Count({"running"}) = 2
  /\ puts = {}

====
